---- MODULE Spec2Model ----
(***************************************************************************)
(* Model of src/app.py: the free-tier ATS resume analyzer.                 *)
(*                                                                         *)
(*   FreeTierATSClient   throttle (_rate_limit) + remote call + error      *)
(*                       classification (get_response)                     *)
(*   PDFProcessor        size guard, page conversion, first-page payload   *)
(*   ATSAnalyzer         per-instance usage counter + pipeline             *)
(*   StreamlitUI         handle_analysis_requests (prerequisites, limit,   *)
(*                       button dispatch, error rendering)                 *)
(*   main                one script run: builds a new ATSAnalyzer          *)
(*                                                                         *)
(* Text is modelled as a sequence of words; "x in msg" (substring test) is *)
(* a contiguous match of words, lower() maps every word to lower case.     *)
(* Time is a discrete clock `now` that may advance between any two steps.  *)
(***************************************************************************)
EXTENDS Integers, Sequences, FiniteSets, TLC

VARIABLES
    now,            \* time.time()
    analyzers,      \* heap of ATSAnalyzer objects (each owns one client)
    hist,           \* per analyzer object: observation history (not program state)
    ats_analyzer,   \* the analyzer the calls are made on (main's local variable)
    session_state,  \* st.session_state.analyzer: index into analyzers, 0 = absent
    th              \* per thread: position, arguments, locals, outcome

vars == <<now, analyzers, hist, ats_analyzer, session_state, th>>

----------------------------------------------------------------------------
\* Bounds of the model

MaxTime == 5        \* the clock stops here
ExtraCalls == 2     \* direct calls made on one instance beyond the ceiling
MaxRuns == 3        \* script runs of one session
MaxPages == 3       \* pages of an uploaded PDF

----------------------------------------------------------------------------
\* Program constants

min_interval == 2

max_analyses_per_session == 10

max_size_mb == 5

last_page == 2

Threads == {"main", "worker"}

Min(a, b) == IF a < b THEN a ELSE b

Max(a, b) == IF a > b THEN a ELSE b

----------------------------------------------------------------------------
\* Text: sequences of words

LowerWord(w) ==
    CASE w = "Quota" -> "quota"
      [] w = "QUOTA" -> "quota"
      [] w = "Rate" -> "rate"
      [] w = "Limit" -> "limit"
      [] w = "SAFETY" -> "safety"
      [] w = "Safety" -> "safety"
      [] w = "API" -> "api"
      [] w = "AI" -> "ai"
      [] w = "Google" -> "google"
      [] w = "Please" -> "please"
      [] w = "Content" -> "content"
      [] w = "Session" -> "session"
      [] w = "Maximum" -> "maximum"
      [] w = "Invalid" -> "invalid"
      [] w = "File" -> "file"
      [] w = "5MB" -> "5mb"
      [] w = "No" -> "no"
      [] w = "PDF" -> "pdf"
      [] w = "PDF:" -> "pdf:"
      [] w = "Error" -> "error"
      [] w = "Unable" -> "unable"
      [] w = "Deadline" -> "deadline"
      [] OTHER -> w

Lower(msg) == [i \in DOMAIN msg |-> LowerWord(msg[i])]

\* Python's `pat in msg`
Contains(msg, pat) ==
    \E i \in 1..(Len(msg) - Len(pat) + 1) : SubSeq(msg, i, i + Len(pat) - 1) = pat

\* Messages the provider's exception may carry (str(e) at line 50)
ProviderMessages ==
    { <<"Quota", "exceeded">>,
      <<"429", "Rate", "limit", "reached">>,
      <<"rate", "limit", "on", "QUOTA">>,
      <<"blocked", "by", "SAFETY", "filter">>,
      <<"limit", "rate">>,
      <<"Deadline", "exceeded">> }

\* response.text of a successful generate_content
Texts == {"", "analysis"}

----------------------------------------------------------------------------
\* Inputs

None == [present |-> FALSE, size |-> 0, pages |-> 0, damage |-> "none"]

MaxBytes == max_size_mb * 1024 * 1024

\* readable PDFs of 0, 1 and MaxPages pages at the size ceiling, one PDF a byte
\* above it, one that pdf2image rejects and one whose page cannot be encoded
UploadedFiles ==
    { [present |-> TRUE, size |-> MaxBytes, pages |-> p, damage |-> "none"] :
          p \in {0, 1, MaxPages} }
    \cup { [present |-> TRUE, size |-> MaxBytes + 1, pages |-> 1, damage |-> "none"] }
    \cup { [present |-> TRUE, size |-> MaxBytes, pages |-> 1, damage |-> d] :
          d \in {"pdf", "image"} }

JobDescriptions == { <<>>, <<" ">>, <<"Go", "engineer">> }

AnalysisTypes == {"summary", "percentage", "evaluation", "keywords"}

NoButton == [summary |-> FALSE, percentage |-> FALSE, evaluation |-> FALSE]

\* one click per script run: at most one button is True
Buttons ==
    { b \in [summary : BOOLEAN, percentage : BOOLEAN, evaluation : BOOLEAN] :
          Cardinality({k \in {"summary", "percentage", "evaluation"} : b[k]}) <= 1 }

----------------------------------------------------------------------------
\* ATSAnalyzer prompts

get_summary_prompt == "Provide a concise resume summary"

get_percentage_prompt == "Evaluate ATS compatibility"

get_evaluation_prompt == "Provide a focused evaluation"

prompts ==
    ("summary" :> get_summary_prompt) @@
    ("percentage" :> get_percentage_prompt) @@
    ("evaluation" :> get_evaluation_prompt)

----------------------------------------------------------------------------
\* Exception messages raised by the program

SessionLimitMsg ==
    <<"Session", "limit", "reached.", "Maximum", "10", "analyses", "per", "session.">>

InvalidTypeMsg(analysis_type) == <<"Invalid", "analysis", "type:", analysis_type>>

NoContentMsg == <<"No", "PDF", "content", "available", "for", "analysis">>

TooLargeMsg == <<"File", "size", "too", "large.", "Maximum", "5MB", "allowed.">>

NoPagesMsg == <<"No", "pages", "could", "be", "extracted", "from", "PDF">>

ConvertPdfMsg == <<"Error", "converting", "PDF:", "Unable", "to", "get", "page", "count.">>

ConvertImageMsg == <<"Error", "converting", "image:", "cannot", "write", "mode">>

QuotaMsg ==
    <<"API", "quota", "exceeded.", "Please", "try", "again", "later", "or", "check",
      "your", "Google", "AI", "API", "usage.">>

SafetyMsg ==
    <<"Content", "was", "blocked", "for", "safety", "reasons.", "Please", "modify",
      "your", "input.">>

ApiErrorMsg(e) == <<"API", "error:">> \o e

----------------------------------------------------------------------------
\* PDFProcessor

validate_pdf_size_raises_inclusive(uploaded_file) ==
    uploaded_file.size >= max_size_mb * 1024 * 1024

\* TRUE when validate_pdf_size raises
validate_pdf_size_raises(uploaded_file) == uploaded_file.size > max_size_mb * 1024 * 1024

\* the page images pdf2image returns: pages first_page=1 .. last_page=2
convert_pdf_to_images(uploaded_file) ==
    [i \in 1..Min(uploaded_file.pages, last_page) |-> [page |-> i]]

image_to_base64(image) == [jpeg_b64_of_page |-> image.page]

process_uploaded_pdf_last_page(uploaded_file) ==
    IF ~uploaded_file.present
    THEN [raised |-> FALSE, value |-> <<>>, error |-> <<>>, converted |-> FALSE]
    ELSE IF validate_pdf_size_raises(uploaded_file)
    THEN [raised |-> TRUE, value |-> <<>>, error |-> TooLargeMsg, converted |-> FALSE]
    ELSE IF uploaded_file.damage = "pdf"
    THEN [raised |-> TRUE, value |-> <<>>, error |-> ConvertPdfMsg, converted |-> TRUE]
    ELSE IF convert_pdf_to_images(uploaded_file) = <<>>
    THEN [raised |-> TRUE, value |-> <<>>, error |-> NoPagesMsg, converted |-> TRUE]
    ELSE IF uploaded_file.damage = "image"
    THEN [raised |-> TRUE, value |-> <<>>, error |-> ConvertImageMsg, converted |-> TRUE]
    ELSE [raised |-> FALSE,
          value |-> << [mime_type |-> "image/jpeg",
                        data |-> image_to_base64(convert_pdf_to_images(uploaded_file)[
                                    Len(convert_pdf_to_images(uploaded_file))])] >>,
          error |-> <<>>, converted |-> TRUE]

\* result: raised with error, or value (<<>> stands for None); converted tells
\* whether convert_pdf_to_images was called
process_uploaded_pdf(uploaded_file) ==
    IF ~uploaded_file.present
    THEN [raised |-> FALSE, value |-> <<>>, error |-> <<>>, converted |-> FALSE]
    ELSE IF validate_pdf_size_raises(uploaded_file)
    THEN [raised |-> TRUE, value |-> <<>>, error |-> TooLargeMsg, converted |-> FALSE]
    ELSE IF uploaded_file.damage = "pdf"
    THEN [raised |-> TRUE, value |-> <<>>, error |-> ConvertPdfMsg, converted |-> TRUE]
    ELSE IF convert_pdf_to_images(uploaded_file) = <<>>
    THEN [raised |-> TRUE, value |-> <<>>, error |-> NoPagesMsg, converted |-> TRUE]
    ELSE IF uploaded_file.damage = "image"
    THEN [raised |-> TRUE, value |-> <<>>, error |-> ConvertImageMsg, converted |-> TRUE]
    ELSE [raised |-> FALSE,
          value |-> << [mime_type |-> "image/jpeg",
                        data |-> image_to_base64(convert_pdf_to_images(uploaded_file)[1])] >>,
          error |-> <<>>, converted |-> TRUE]

----------------------------------------------------------------------------
\* FreeTierATSClient.get_response, except branch: the exception handed on

ClassifyError(e) ==
    IF Contains(Lower(e), <<"quota">>) \/ Contains(Lower(e), <<"rate", "limit">>)
    THEN QuotaMsg
    ELSE IF Contains(Lower(e), <<"safety">>)
    THEN SafetyMsg
    ELSE ApiErrorMsg(e)

\* StreamlitUI.handle_analysis_requests, except branch: what is rendered
RenderError(error_msg) ==
    IF Contains(Lower(error_msg), <<"quota">>)
    THEN "quota"
    ELSE IF Contains(Lower(error_msg), <<"rate", "limit">>)
    THEN "rate_limit"
    ELSE "failed"

Remaining_unclamped(a) == max_analyses_per_session - a.analysis_count

\* StreamlitUI.render_sidebar, line 314
Remaining(a) == Max(0, max_analyses_per_session - a.analysis_count)

----------------------------------------------------------------------------
\* Objects and threads

NewAnalyzer == [analysis_count |-> 0, last_request_time |-> 0]

\* calls: calls of analyze_resume so far; last_start: the clock at the start of
\* the latest remote invocation (0: none yet); stamps: executions of line 40
NewHist == [calls |-> 0, last_start |-> 0, stamps |-> 0]

IdleThread ==
    [pc |-> "idle", via |-> "none", btn |-> NoButton,
     job_description |-> <<>>, uploaded_file |-> None, analysis_type |-> "",
     call_no |-> 0, entry_count |-> 0, resolved |-> FALSE, extracted |-> FALSE,
     invocations |-> 0, start |-> 0,
     prev_stamp |-> 0, prev_start |-> 0,
     entry_time |-> 0, throttled |-> FALSE, converted |-> FALSE,
     seen_no |-> 0, stamp_no |-> 0, stamp |-> 0, remaining |-> 0,
     current_time |-> 0, sleep_until |-> 0, pdf_content |-> <<>>,
     payload |-> <<>>, provider_error |-> <<>>,
     status |-> "none", result |-> "", error |-> <<>>, ui |-> "none"]

\* the analyzer object the threads work on
Obj == analyzers[ats_analyzer]

QuotaExceeded_off_by_one(count) == count > max_analyses_per_session + 1

\* line 137
QuotaExceeded(count) == count > max_analyses_per_session

\* a call of analyze_resume begins
EnterAnalyze(via, btn, job_description, uploaded_file, analysis_type) ==
    [IdleThread EXCEPT !.pc = "reserve", !.via = via, !.btn = btn,
                       !.job_description = job_description,
                       !.uploaded_file = uploaded_file,
                       !.analysis_type = analysis_type]

\* handle_analysis_requests returns without calling analyze_resume
Rendered(btn, job_description, uploaded_file, a, ui) ==
    [IdleThread EXCEPT !.pc = "done", !.via = "ui", !.btn = btn,
                       !.job_description = job_description,
                       !.uploaded_file = uploaded_file,
                       !.entry_count = a.analysis_count,
                       !.ui = ui]

\* analyze_resume returns `text` (and, through the UI, the result is displayed)
Returned(self, text) ==
    [self EXCEPT !.pc = "done", !.status = "returned", !.result = text,
                 !.current_time = 0, !.sleep_until = 0, !.pdf_content = <<>>,
                 !.prev_stamp = 0, !.prev_start = 0,
                 !.seen_no = 0, !.stamp_no = 0, !.stamp = 0,
                 !.ui = IF self.via = "ui" THEN "result" ELSE "none"]

\* analyze_resume raises `msg` (and, through the UI, the error is rendered)
Raised(self, msg) ==
    [self EXCEPT !.pc = "done", !.status = "raised", !.error = msg,
                 !.current_time = 0, !.sleep_until = 0, !.pdf_content = <<>>,
                 !.prev_stamp = 0, !.prev_start = 0,
                 !.seen_no = 0, !.stamp_no = 0, !.stamp = 0,
                 !.ui = IF self.via = "ui" THEN RenderError(msg) ELSE "none"]

----------------------------------------------------------------------------
\* StreamlitUI.handle_analysis_requests on analyzer `a`: the thread's next position

handle_analysis_requests_unvalidated(btn, job_description, uploaded_file, a) ==
    IF ~uploaded_file.present
    THEN Rendered(btn, job_description, uploaded_file, a, "warn_resume")
    ELSE IF max_analyses_per_session - a.analysis_count <= 0
    THEN Rendered(btn, job_description, uploaded_file, a, "session_limit")
    ELSE IF btn.summary
    THEN EnterAnalyze("ui", btn, job_description, uploaded_file, "summary")
    ELSE IF btn.percentage
    THEN EnterAnalyze("ui", btn, job_description, uploaded_file, "percentage")
    ELSE IF btn.evaluation
    THEN EnterAnalyze("ui", btn, job_description, uploaded_file, "evaluation")
    ELSE Rendered(btn, job_description, uploaded_file, a, "none")

handle_analysis_requests_misrouted(btn, job_description, uploaded_file, a) ==
    IF job_description = <<>>
    THEN Rendered(btn, job_description, uploaded_file, a, "warn_job_description")
    ELSE IF ~uploaded_file.present
    THEN Rendered(btn, job_description, uploaded_file, a, "warn_resume")
    ELSE IF max_analyses_per_session - a.analysis_count <= 0
    THEN Rendered(btn, job_description, uploaded_file, a, "session_limit")
    ELSE IF btn.summary
    THEN EnterAnalyze("ui", btn, job_description, uploaded_file, "summary")
    ELSE IF btn.percentage \/ btn.evaluation
    THEN EnterAnalyze("ui", btn, job_description, uploaded_file, "percentage")
    ELSE Rendered(btn, job_description, uploaded_file, a, "none")

\* lines 435-473
handle_analysis_requests(btn, job_description, uploaded_file, a) ==
    IF job_description = <<>>
    THEN Rendered(btn, job_description, uploaded_file, a, "warn_job_description")
    ELSE IF ~uploaded_file.present
    THEN Rendered(btn, job_description, uploaded_file, a, "warn_resume")
    ELSE IF max_analyses_per_session - a.analysis_count <= 0
    THEN Rendered(btn, job_description, uploaded_file, a, "session_limit")
    ELSE IF btn.summary
    THEN EnterAnalyze("ui", btn, job_description, uploaded_file, "summary")
    ELSE IF btn.percentage
    THEN EnterAnalyze("ui", btn, job_description, uploaded_file, "percentage")
    ELSE IF btn.evaluation
    THEN EnterAnalyze("ui", btn, job_description, uploaded_file, "evaluation")
    ELSE Rendered(btn, job_description, uploaded_file, a, "none")

----------------------------------------------------------------------------
\* Entry points

\* a caller invokes analyze_resume directly on the instance
CallAnalyze(t) ==
    /\ th[t].pc = "idle"
    /\ ats_analyzer # 0
    /\ hist[ats_analyzer].calls < max_analyses_per_session + ExtraCalls
    /\ \E jd \in JobDescriptions, f \in UploadedFiles \cup {None}, ty \in AnalysisTypes :
          th' = [th EXCEPT ![t] = EnterAnalyze("direct", NoButton, jd, f, ty)]
    /\ UNCHANGED <<now, analyzers, hist, ats_analyzer, session_state>>

\* the UI handler runs on the instance
HandleRequests(t) ==
    /\ th[t].pc = "idle"
    /\ ats_analyzer # 0
    /\ \E b \in Buttons, jd \in JobDescriptions, f \in UploadedFiles \cup {None} :
          th' = [th EXCEPT ![t] = handle_analysis_requests(b, jd, f, Obj)]
    /\ UNCHANGED <<now, analyzers, hist, ats_analyzer, session_state>>

\* one script run: main() builds a new analyzer, keeps the first one in
\* st.session_state, and renders the interface with the new one
Main(t) ==
    /\ \A u \in Threads : th[u].pc = "idle"
    /\ Len(analyzers) < MaxRuns
    /\ analyzers' = Append(analyzers, NewAnalyzer)
    /\ hist' = Append(hist, NewHist)
    /\ ats_analyzer' = Len(analyzers) + 1
    /\ session_state' = IF session_state = 0 THEN Len(analyzers) + 1 ELSE session_state
    /\ \E b \in Buttons, jd \in JobDescriptions, f \in UploadedFiles \cup {None} :
          th' = [th EXCEPT ![t] =
                    [handle_analysis_requests(b, jd, f, NewAnalyzer)
                        EXCEPT !.remaining = Remaining(NewAnalyzer)]]
    /\ UNCHANGED now

\* render_sidebar runs on the instance: the usage counter is displayed
RenderSidebar(t) ==
    /\ th[t].pc = "idle"
    /\ ats_analyzer # 0
    /\ th' = [th EXCEPT ![t] =
                 [IdleThread EXCEPT !.pc = "done", !.via = "sidebar",
                                    !.entry_count = Obj.analysis_count,
                                    !.entry_time = Obj.last_request_time,
                                    !.remaining = Remaining(Obj)]]
    /\ UNCHANGED <<now, analyzers, hist, ats_analyzer, session_state>>

\* a caller invokes get_response directly on the instance's client, with the
\* arguments analyze_resume would pass for a summary of a one-page resume
CallClient(t) ==
    /\ th[t].pc = "idle"
    /\ ats_analyzer # 0
    /\ \E ty \in {"summary"} :
          th' = [th EXCEPT ![t] =
                    [IdleThread EXCEPT
                        !.pc = "rate_read", !.via = "client",
                        !.analysis_type = ty,
                        !.job_description = <<"Go", "engineer">>,
                        !.entry_count = Obj.analysis_count,
                        !.entry_time = Obj.last_request_time,
                        !.pdf_content =
                            << [mime_type |-> "image/jpeg",
                                data |-> image_to_base64([page |-> 1])] >>]]
    /\ UNCHANGED <<now, analyzers, hist, ats_analyzer, session_state>>

\* the caller has seen the outcome; the call's locals are gone
Finish(t) ==
    /\ th[t].pc = "done"
    /\ th' = [th EXCEPT ![t] = IdleThread]
    /\ UNCHANGED <<now, analyzers, hist, ats_analyzer, session_state>>

----------------------------------------------------------------------------
\* ATSAnalyzer.analyze_resume

Reserve_uncharged(t) ==
    /\ th[t].pc = "reserve"
    /\ hist' = [hist EXCEPT ![ats_analyzer].calls = @ + 1]
    /\ LET self == [th[t] EXCEPT !.entry_count = Obj.analysis_count,
                                  !.entry_time = Obj.last_request_time,
                                  !.call_no = hist[ats_analyzer].calls + 1]
       IN th' = [th EXCEPT ![t] =
                    IF QuotaExceeded(Obj.analysis_count + 1)
                    THEN Raised(self, SessionLimitMsg)
                    ELSE [self EXCEPT !.pc = "resolve"]]
    /\ UNCHANGED <<now, analyzers, ats_analyzer, session_state>>

\* lines 136-138
Reserve(t) ==
    /\ th[t].pc = "reserve"
    /\ analyzers' = [analyzers EXCEPT ![ats_analyzer].analysis_count = @ + 1]
    /\ hist' = [hist EXCEPT ![ats_analyzer].calls = @ + 1]
    /\ LET self == [th[t] EXCEPT !.entry_count = Obj.analysis_count,
                                  !.entry_time = Obj.last_request_time,
                                  !.call_no = hist[ats_analyzer].calls + 1]
       IN th' = [th EXCEPT ![t] =
                    IF QuotaExceeded(Obj.analysis_count + 1)
                    THEN Raised(self, SessionLimitMsg)
                    ELSE [self EXCEPT !.pc = "resolve"]]
    /\ UNCHANGED <<now, ats_analyzer, session_state>>

Resolve_unchecked(t) ==
    /\ th[t].pc = "resolve"
    /\ th' = [th EXCEPT ![t] = [@ EXCEPT !.pc = "extract", !.resolved = TRUE]]
    /\ UNCHANGED <<now, analyzers, hist, ats_analyzer, session_state>>

\* lines 140-147
Resolve(t) ==
    /\ th[t].pc = "resolve"
    /\ th' = [th EXCEPT ![t] =
                 IF th[t].analysis_type \notin DOMAIN prompts
                 THEN Raised(@, InvalidTypeMsg(th[t].analysis_type))
                 ELSE [@ EXCEPT !.pc = "extract", !.resolved = TRUE]]
    /\ UNCHANGED <<now, analyzers, hist, ats_analyzer, session_state>>

Extract_throttled(t) ==
    /\ th[t].pc = "extract"
    /\ LET r == process_uploaded_pdf(th[t].uploaded_file)
           self == [th[t] EXCEPT !.extracted = TRUE, !.converted = r.converted]
       IN th' = [th EXCEPT ![t] =
                    IF r.raised THEN Raised(self, r.error)
                    ELSE IF r.value = <<>> THEN Raised(self, NoContentMsg)
                    ELSE [self EXCEPT !.pc = "rate_read", !.pdf_content = r.value]]
    /\ analyzers' = [analyzers EXCEPT ![ats_analyzer].last_request_time = now]
    /\ UNCHANGED <<now, hist, ats_analyzer, session_state>>

\* lines 149-152
Extract(t) ==
    /\ th[t].pc = "extract"
    /\ LET r == process_uploaded_pdf(th[t].uploaded_file)
           self == [th[t] EXCEPT !.extracted = TRUE, !.converted = r.converted]
       IN th' = [th EXCEPT ![t] =
                    IF r.raised THEN Raised(self, r.error)
                    ELSE IF r.value = <<>> THEN Raised(self, NoContentMsg)
                    ELSE [self EXCEPT !.pc = "rate_read", !.pdf_content = r.value]]
    /\ UNCHANGED <<now, analyzers, hist, ats_analyzer, session_state>>

----------------------------------------------------------------------------
\* FreeTierATSClient._rate_limit

\* line 36
RateRead(t) ==
    /\ th[t].pc = "rate_read"
    /\ th' = [th EXCEPT ![t].pc = "rate_check", ![t].current_time = now,
                        ![t].throttled = TRUE]
    /\ UNCHANGED <<now, analyzers, hist, ats_analyzer, session_state>>

SleepFor_short(current_time, last_request_time) ==
    IF current_time - last_request_time < min_interval - 1
    THEN min_interval - 1 - (current_time - last_request_time)
    ELSE 0

\* the duration line 39 sleeps for (0: sleep is not called)
SleepFor(current_time, last_request_time) ==
    IF current_time - last_request_time < min_interval
    THEN min_interval - (current_time - last_request_time)
    ELSE 0

\* lines 37-39: time.sleep is entered at `now`; a duration of 0 stands for
\* the branch that does not sleep, which SleepReturn leaves at once
RateCheck(t) ==
    /\ th[t].pc = "rate_check"
    /\ th' = [th EXCEPT ![t].pc = "sleeping",
                        ![t].seen_no = hist[ats_analyzer].stamps,
                        ![t].sleep_until =
                            now + SleepFor(th[t].current_time, Obj.last_request_time)]
    /\ UNCHANGED <<now, analyzers, hist, ats_analyzer, session_state>>

\* time.sleep returns once the duration has passed
SleepReturn(t) ==
    /\ th[t].pc = "sleeping"
    /\ now >= th[t].sleep_until
    /\ th' = [th EXCEPT ![t].pc = "rate_stamp"]
    /\ UNCHANGED <<now, analyzers, hist, ats_analyzer, session_state>>

\* line 40
RateStamp(t) ==
    /\ th[t].pc = "rate_stamp"
    /\ analyzers' = [analyzers EXCEPT ![ats_analyzer].last_request_time = now]
    /\ hist' = [hist EXCEPT ![ats_analyzer].stamps = @ + 1]
    /\ th' = [th EXCEPT ![t].pc = "generate",
                        ![t].prev_stamp = Obj.last_request_time,
                        ![t].stamp = now,
                        ![t].stamp_no = hist[ats_analyzer].stamps + 1]
    /\ UNCHANGED <<now, ats_analyzer, session_state>>

----------------------------------------------------------------------------
\* FreeTierATSClient.get_response

\* line 47: the remote invocation starts
GenerateStart(t) ==
    /\ th[t].pc = "generate"
    /\ th' = [th EXCEPT ![t].pc = "remote",
                        ![t].invocations = @ + 1,
                        ![t].start = now,
                        ![t].prev_start = hist[ats_analyzer].last_start,
                        ![t].payload = << prompts[th[t].analysis_type],
                                          th[t].pdf_content[1],
                                          th[t].job_description >>]
    /\ hist' = [hist EXCEPT ![ats_analyzer].last_start = now]
    /\ UNCHANGED <<now, analyzers, ats_analyzer, session_state>>

\* line 48: the remote model answers with some text
GenerateReturn(t) ==
    /\ th[t].pc = "remote"
    /\ \E text \in Texts : th' = [th EXCEPT ![t] = Returned(@, text)]
    /\ UNCHANGED <<now, analyzers, hist, ats_analyzer, session_state>>

GenerateRaise_retry(t) ==
    /\ th[t].pc = "remote"
    /\ \E e \in ProviderMessages :
          th' = [th EXCEPT ![t] =
                    IF ClassifyError(e) = ApiErrorMsg(e) /\ th[t].invocations = 1
                    THEN [@ EXCEPT !.invocations = 2]
                    ELSE Raised([@ EXCEPT !.provider_error = e], ClassifyError(e))]
    /\ UNCHANGED <<now, analyzers, hist, ats_analyzer, session_state>>

GenerateRaise_retry_classified(t) ==
    /\ th[t].pc = "remote"
    /\ \E e \in ProviderMessages :
          th' = [th EXCEPT ![t] =
                    IF ClassifyError(e) # ApiErrorMsg(e) /\ th[t].invocations = 1
                    THEN [@ EXCEPT !.invocations = 2]
                    ELSE Raised([@ EXCEPT !.provider_error = e], ClassifyError(e))]
    /\ UNCHANGED <<now, analyzers, hist, ats_analyzer, session_state>>

\* lines 49-56: the remote call raises; the handler classifies and raises
GenerateRaise(t) ==
    /\ th[t].pc = "remote"
    /\ \E e \in ProviderMessages :
          th' = [th EXCEPT ![t] = Raised([@ EXCEPT !.provider_error = e], ClassifyError(e))]
    /\ UNCHANGED <<now, analyzers, hist, ats_analyzer, session_state>>

----------------------------------------------------------------------------
\* The clock

Tick ==
    /\ now < MaxTime
    /\ now' = now + 1
    /\ UNCHANGED <<analyzers, hist, ats_analyzer, session_state, th>>

----------------------------------------------------------------------------
\* Specifications

\* the steps of get_response
ClientStep(t) ==
    \/ RateRead(t)
    \/ RateCheck(t)
    \/ SleepReturn(t)
    \/ RateStamp(t)
    \/ GenerateStart(t)
    \/ GenerateReturn(t)
    \/ GenerateRaise(t)

\* the steps of analyze_resume
Step(t) ==
    \/ Reserve(t)
    \/ Resolve(t)
    \/ Extract(t)
    \/ ClientStep(t)

\* One constructed analyzer, called by one thread; the clock reads at least
\* min_interval (time.time() is seconds since 1970, last_request_time starts at 0).
Init ==
    /\ now = min_interval
    /\ analyzers = <<NewAnalyzer>>
    /\ hist = <<NewHist>>
    /\ ats_analyzer = 1
    /\ session_state = 0
    /\ th = [t \in Threads |-> IdleThread]

Next ==
    \/ CallAnalyze("main")
    \/ HandleRequests("main")
    \/ RenderSidebar("main")
    \/ Step("main")
    \/ Finish("main")
    \/ Tick

Spec == Init /\ [][Next]_vars

\* One user session of the Streamlit application: every interaction runs main()
InitMain ==
    /\ now = min_interval
    /\ analyzers = <<>>
    /\ hist = <<>>
    /\ ats_analyzer = 0
    /\ session_state = 0
    /\ th = [t \in Threads |-> IdleThread]

NextMain ==
    \/ Main("main")
    \/ Step("main")
    \/ Finish("main")
    \/ Tick

SpecMain == InitMain /\ [][NextMain]_vars

\* Two threads call get_response on the client of one analyzer concurrently;
\* every step of _rate_limit and get_response is a separate action, so the
\* threads interleave between the read at line 37 and the write at line 40
NextRace ==
    \/ \E t \in Threads :
          \/ CallClient(t)
          \/ ClientStep(t)
          \/ Finish(t)
    \/ Tick

SpecRace == Init /\ [][NextRace]_vars

----------------------------------------------------------------------------
\* Properties

\* the call of thread t has entered analyze_resume and passed lines 136-138
InAnalyze(t) == th[t].call_no > 0 /\ th[t].pc \notin {"idle", "reserve"}

RejectedByQuota(t) ==
    th[t].pc = "done" /\ th[t].status = "raised" /\ th[t].error = SessionLimitMsg

\* the provider's message is neither quota-, rate-limit- nor safety-classified
Unclassified(e) ==
    /\ ~Contains(Lower(e), <<"quota">>)
    /\ ~Contains(Lower(e), <<"rate", "limit">>)
    /\ ~Contains(Lower(e), <<"safety">>)

\* C1: on one analyzer instance, once max_analyses_per_session calls of
\* analyze_resume have been made, the next call and every later one raises the
\* session-limit error, and neither extraction nor a remote invocation happens
\* on its behalf.
C1_QuotaInvariant ==
    \A t \in Threads :
        (InAnalyze(t) /\ th[t].call_no > max_analyses_per_session)
            => /\ RejectedByQuota(t)
               /\ th[t].invocations = 0
               /\ ~th[t].extracted
               /\ th[t].payload = <<>>

C1_Witness ==
    \E t \in Threads :
        /\ th[t].call_no = max_analyses_per_session + 2
        /\ RejectedByQuota(t)
        /\ hist[ats_analyzer].last_start > 0

\* C2: the remote invocation of a call starts at least min_interval after the
\* start of the remote invocation of the previous call on the same client,
\* whatever the outcome of the previous call.
C2_StartGap ==
    \A t \in Threads :
        (th[t].pc = "remote" /\ th[t].prev_start > 0)
            => th[t].start - th[t].prev_start >= min_interval

\* What the throttle does guarantee (companion of C2): the remote invocation
\* of a call starts at least min_interval after the throttle timestamp
\* (last_request_time) that the previous call on the same client recorded
\* before its own remote invocation, and the two timestamps are at least
\* min_interval apart.
C2_StampGap ==
    \A t \in Threads :
        (th[t].pc = "remote" /\ th[t].prev_start > 0)
            => /\ th[t].start - th[t].prev_stamp >= min_interval
               /\ Obj.last_request_time - th[t].prev_stamp >= min_interval
               /\ th[t].prev_stamp <= th[t].prev_start

C2_Witness ==
    \E t \in Threads :
        /\ th[t].pc = "remote"
        /\ th[t].prev_start > 0
        /\ th[t].start = th[t].prev_stamp + min_interval
        /\ th[t].start - th[t].prev_start < min_interval

C4_ReserveThenAttempt ==
    \A t \in Threads :
        (InAnalyze(t) /\ ~RejectedByQuota(t))
            => Obj.analysis_count = th[t].entry_count + 1

C4_Witness ==
    \E t \in Threads :
        /\ InAnalyze(t)
        /\ th[t].pc = "done"
        /\ th[t].status = "raised"
        /\ th[t].invocations = 1
        /\ th[t].entry_count = 3
        /\ Obj.analysis_count = 4

\* C5: a request through handle_analysis_requests with an empty job
\* description and an uploaded resume ends with the job-description warning:
\* analyze_resume is not entered, analysis_count is what it was when the
\* handler began, and neither extraction nor a remote invocation happens.
C5_EmptyJobDescription ==
    \A t \in Threads :
        (th[t].via = "ui" /\ th[t].pc # "idle" /\ th[t].job_description = <<>>
            /\ th[t].uploaded_file.present)
            => /\ th[t].pc = "done"
               /\ th[t].ui = "warn_job_description"
               /\ th[t].status = "none"
               /\ th[t].call_no = 0
               /\ Obj.analysis_count = th[t].entry_count
               /\ ~th[t].extracted
               /\ th[t].invocations = 0

C5_Witness ==
    \E t \in Threads :
        /\ th[t].via = "ui"
        /\ th[t].pc = "done"
        /\ th[t].job_description = <<>>
        /\ th[t].uploaded_file.present
        /\ th[t].btn.summary
        /\ Obj.analysis_count = 0

\* C6: analyze_resume runs reserve, resolve, extract, invoke in this order and
\* the first failing step ends the call: extraction is attempted only after
\* the prompt was resolved, a remote invocation only after extraction produced
\* content, and an unrecognized analysis type raises with the unit reserved
\* and with neither extraction nor a remote invocation.
C6_PipelineOrder ==
    \A t \in Threads :
        /\ th[t].resolved
              => /\ InAnalyze(t)
                 /\ ~RejectedByQuota(t)
                 /\ th[t].analysis_type \in {"summary", "percentage", "evaluation"}
        /\ th[t].extracted => th[t].resolved
        /\ th[t].invocations > 0
              => /\ th[t].extracted
                 /\ ~process_uploaded_pdf(th[t].uploaded_file).raised
                 /\ process_uploaded_pdf(th[t].uploaded_file).value # <<>>
        /\ RejectedByQuota(t) => ~th[t].resolved
        /\ (InAnalyze(t) /\ th[t].pc # "resolve" /\ ~RejectedByQuota(t)
              /\ th[t].analysis_type \notin {"summary", "percentage", "evaluation"})
              => /\ th[t].pc = "done"
                 /\ th[t].status = "raised"
                 /\ th[t].error = <<"Invalid", "analysis", "type:", th[t].analysis_type>>
                 /\ Obj.analysis_count = th[t].entry_count + 1
                 /\ ~th[t].extracted
                 /\ th[t].invocations = 0

C6_Witness ==
    \E t \in Threads :
        /\ th[t].pc = "done"
        /\ th[t].status = "raised"
        /\ th[t].analysis_type = "keywords"
        /\ th[t].uploaded_file.present
        /\ th[t].uploaded_file.damage = "none"
        /\ Obj.analysis_count = th[t].entry_count + 1
        /\ ~th[t].extracted

\* C7: a provider error whose lowercased message contains "rate limit" and
\* not "quota" reaches the caller as a rate-limit failure: the error raised is
\* not the quota error, and the UI renders the rate-limit message.
C7_RateLimitDistinct ==
    \A t \in Threads :
        (th[t].pc = "done" /\ th[t].status = "raised"
            /\ Contains(Lower(th[t].provider_error), <<"rate", "limit">>)
            /\ ~Contains(Lower(th[t].provider_error), <<"quota">>))
            => /\ th[t].error # QuotaMsg
               /\ th[t].via = "ui" => th[t].ui = "rate_limit"

\* C8: the usage counter is carried from one script run of a session to the
\* next: the analyzer of a later run never shows a smaller analysis_count
\* than the analyzer of the run before it was left with.
C8_SessionScopedCount ==
    \A k \in 1..(Len(analyzers) - 1) :
        analyzers[k + 1].analysis_count >= analyzers[k].analysis_count

\* C9: an analysis of a request with a job description and a resume never
\* returns an empty text as its result.
C9_NoEmptySuccess ==
    \A t \in Threads :
        (th[t].pc = "done" /\ th[t].status = "returned"
            /\ th[t].job_description \notin {<<>>, <<" ">>}
            /\ th[t].uploaded_file.present)
            => th[t].result # ""

\* C10 (as claimed): a Full Evaluation request that returns has consumed two
\* quota units.
C10_TwoUnits ==
    \A t \in Threads :
        (th[t].via = "ui" /\ th[t].btn.evaluation /\ th[t].pc = "done"
            /\ th[t].status = "returned")
            => Obj.analysis_count = th[t].entry_count + 2

\* C10 (amended): a Full Evaluation request is one call of analyze_resume with
\* the evaluation template: it makes one remote invocation whose payload
\* carries the evaluation prompt, returns that one text and consumes one quota
\* unit.
C10_SingleEvaluation ==
    \A t \in Threads :
        (th[t].via = "ui" /\ th[t].btn.evaluation /\ th[t].pc = "done"
            /\ th[t].status = "returned")
            => /\ Obj.analysis_count = th[t].entry_count + 1
               /\ th[t].invocations = 1
               /\ th[t].analysis_type = "evaluation"
               /\ th[t].payload[1] = get_evaluation_prompt
               /\ th[t].ui = "result"

C10_Witness ==
    \E t \in Threads :
        /\ th[t].via = "ui"
        /\ th[t].btn.evaluation
        /\ th[t].pc = "done"
        /\ th[t].status = "returned"
        /\ th[t].result = "analysis"
        /\ th[t].entry_count = 1

\* C11: a call whose remote invocation raises a quota-, rate-limit- or
\* safety-classified error raises at once: it has made exactly one remote
\* invocation (no secondary attempt) and hands on the quota or the safety
\* error.
C11_NoRetryOnClassified ==
    \A t \in Threads :
        (th[t].pc = "done" /\ th[t].status = "raised" /\ th[t].provider_error # <<>>
            /\ ~Unclassified(th[t].provider_error))
            => /\ th[t].invocations = 1
               /\ th[t].error \in {QuotaMsg, SafetyMsg}
               /\ (th[t].error = SafetyMsg)
                     <=> (/\ Contains(Lower(th[t].provider_error), <<"safety">>)
                          /\ ~Contains(Lower(th[t].provider_error), <<"quota">>)
                          /\ ~Contains(Lower(th[t].provider_error), <<"rate", "limit">>))

C11_Witness ==
    \E t \in Threads :
        /\ th[t].pc = "done"
        /\ th[t].status = "raised"
        /\ th[t].provider_error = <<"blocked", "by", "SAFETY", "filter">>
        /\ th[t].error = SafetyMsg
        /\ th[t].invocations = 1

\* C12: a request through handle_analysis_requests whose job description is
\* only whitespace ends like one with an empty job description: with the
\* job-description warning, analyze_resume not entered, no unit reserved and
\* no remote invocation.
C12_WhitespaceJobDescription ==
    \A t \in Threads :
        (th[t].via = "ui" /\ th[t].pc # "idle" /\ th[t].job_description = <<" ">>
            /\ th[t].uploaded_file.present)
            => /\ th[t].pc = "done"
               /\ th[t].ui = "warn_job_description"
               /\ th[t].call_no = 0
               /\ Obj.analysis_count = th[t].entry_count
               /\ th[t].invocations = 0

\* thread t has passed _rate_limit in its current call (line 40 is done)
PassedThrottle(t) == th[t].pc \in {"generate", "remote"}

\* C13: with two threads on one client, the throttle only separates a call
\* from the timestamps written before its read of last_request_time (line
\* 37): if thread t read after thread u's write (line 40), t's own timestamp
\* is at least min_interval later than u's. A read that precedes the other
\* thread's write is not covered, which is the interleaving C13_Witness
\* reaches: both threads have passed the throttle, neither saw the other's
\* timestamp, and their remote invocations start less than min_interval
\* apart.
C13_ThrottleOnlyAfterWrite ==
    \A t, u \in Threads :
        (t # u /\ PassedThrottle(t) /\ PassedThrottle(u)
            /\ th[t].seen_no >= th[u].stamp_no)
            => th[t].stamp - th[u].stamp >= min_interval

C13_Witness ==
    \E t, u \in Threads :
        /\ t # u
        /\ th[t].pc = "remote"
        /\ th[u].pc = "remote"
        /\ th[t].seen_no < th[u].stamp_no
        /\ th[u].seen_no < th[t].stamp_no
        /\ th[t].start - th[u].start < min_interval
        /\ th[u].start - th[t].start < min_interval
        /\ th[t].current_time >= th[t].entry_time + min_interval
        /\ th[u].current_time >= th[u].entry_time + min_interval

\* the call of thread t is one that the quota check, prompt resolution or
\* extraction rejects
RejectedBeforeClient(t) ==
    \/ th[t].call_no > max_analyses_per_session
    \/ th[t].analysis_type \notin {"summary", "percentage", "evaluation"}
    \/ ~th[t].uploaded_file.present
    \/ th[t].uploaded_file.size > max_size_mb * 1024 * 1024
    \/ th[t].uploaded_file.pages = 0
    \/ th[t].uploaded_file.damage # "none"

\* C14: a call of analyze_resume rejected by the quota check, by prompt
\* resolution or by extraction never enters the client: last_request_time is
\* what it was when the call began, _rate_limit was not entered and no remote
\* invocation was made; last_request_time differs from its value at the
\* start of a call only once that call has passed _rate_limit.
C14_RejectedLeavesThrottle ==
    \A t \in Threads :
        /\ (InAnalyze(t) /\ th[t].pc = "done" /\ RejectedBeforeClient(t))
              => /\ th[t].status = "raised"
                 /\ Obj.last_request_time = th[t].entry_time
                 /\ ~th[t].throttled
                 /\ th[t].invocations = 0
        /\ (InAnalyze(t) /\ Obj.last_request_time # th[t].entry_time)
              => /\ th[t].throttled
                 /\ th[t].pc \in {"generate", "remote", "done"}
                 /\ th[t].pc = "done" => th[t].invocations = 1

C14_Witness ==
    \E t \in Threads :
        /\ InAnalyze(t)
        /\ th[t].pc = "done"
        /\ th[t].status = "raised"
        /\ th[t].extracted
        /\ th[t].error = NoPagesMsg
        /\ th[t].entry_time = 3
        /\ now > th[t].entry_time
        /\ Obj.last_request_time = th[t].entry_time

\* C15: every remote invocation made for an uploaded PDF carries exactly three
\* parts: the prompt, one JPEG image part holding the first extracted page,
\* and the job description; no later page is sent.
C15_FirstPageOnly ==
    \A t \in Threads :
        (th[t].invocations > 0 /\ th[t].via # "client")
            => /\ th[t].uploaded_file.pages >= 1
               /\ Len(th[t].payload) = 3
               /\ th[t].payload[2] =
                     [mime_type |-> "image/jpeg", data |-> [jpeg_b64_of_page |-> 1]]
               /\ th[t].payload[1] \in
                     {get_summary_prompt, get_percentage_prompt, get_evaluation_prompt}
               /\ th[t].payload[3] = th[t].job_description

C15_Witness ==
    \E t \in Threads :
        /\ th[t].pc = "remote"
        /\ th[t].uploaded_file.pages = MaxPages
        /\ Len(convert_pdf_to_images(th[t].uploaded_file)) = last_page
        /\ Len(th[t].payload) = 3

\* C16: an upload larger than 5 * 1024 * 1024 bytes is rejected with the
\* size error before convert_pdf_to_images is called and without a remote
\* invocation; an upload of at most that size is not rejected by the size
\* guard.
C16_SizeGuard ==
    \A t \in Threads :
        /\ (th[t].extracted /\ th[t].uploaded_file.size > 5 * 1024 * 1024)
              => /\ th[t].pc = "done"
                 /\ th[t].status = "raised"
                 /\ th[t].error = TooLargeMsg
                 /\ ~th[t].converted
                 /\ th[t].invocations = 0
        /\ (th[t].extracted /\ th[t].uploaded_file.present
              /\ th[t].uploaded_file.size <= 5 * 1024 * 1024)
              => /\ th[t].error # TooLargeMsg
                 /\ th[t].converted

C16_Witness ==
    \E t \in Threads :
        /\ th[t].pc = "done"
        /\ th[t].extracted
        /\ th[t].uploaded_file.size = 5 * 1024 * 1024 + 1
        /\ th[t].error = TooLargeMsg

\* C17: the remaining count the sidebar shows is max_analyses_per_session
\* minus analysis_count, or 0 once analysis_count has passed the ceiling; it
\* lies between 0 and max_analyses_per_session, and rendering it leaves
\* analysis_count and last_request_time as they were.
C17_RemainingProjection ==
    \A t \in Threads :
        (th[t].via = "sidebar" /\ th[t].pc = "done")
            => /\ Obj.analysis_count <= max_analyses_per_session
                     => th[t].remaining = max_analyses_per_session - Obj.analysis_count
               /\ Obj.analysis_count > max_analyses_per_session
                     => th[t].remaining = 0
               /\ th[t].remaining >= 0
               /\ th[t].remaining <= max_analyses_per_session
               /\ Obj.analysis_count = th[t].entry_count
               /\ Obj.last_request_time = th[t].entry_time

C17_Witness ==
    \E t \in Threads :
        /\ th[t].via = "sidebar"
        /\ th[t].pc = "done"
        /\ Obj.analysis_count = max_analyses_per_session + 2
        /\ Obj.last_request_time > 0
        /\ th[t].remaining = 0

====
